---- MODULE Spec2Model ----
(***************************************************************************)
(* nube-sync: one-way mirror of a WebDAV directory into a local directory. *)
(* The model follows src/src/sync_service.rs (SyncService), src/src/       *)
(* versions.rs (LocalVersion, ServerVersion, Version, VersionService) and  *)
(* src/src/conn_retry.rs (ConnRetry).  A pass is SyncService::init         *)
(* followed by SyncService::sync; the process can be killed between any    *)
(* two steps.  Strings (hrefs, paths, blacklist fragments) are sequences   *)
(* of one-character strings, so that slicing, percent-decoding, joining    *)
(* and substring tests are computed as the code computes them.             *)
(***************************************************************************)
EXTENDS Integers, Sequences, FiniteSets, TLC

(***************************************************************************)
(* Bounds of the model.                                                    *)
(***************************************************************************)
\* Longest listing the server returns.
MaxListLen == 2
\* Largest count of tries a ConnRetry is configured with.
MaxTries == 4

(***************************************************************************)
(* Configuration (src/src/config.rs) and the command line.                 *)
(***************************************************************************)
\* base_url.path() of Url::parse(host + remote_dir), host "https://h/", remote_dir "r/".
UrlPath == <<"/", "r", "/">>
\* config.host.path()
HostPath == <<"/">>
\* config.out_dir
OutDir == <<"o">>
\* config.black_list
BlackList == << <<"b">> >>
\* ConnRetry::default().tries
DefaultTries == 3
\* DEFAULT_CONN_RETRY, the ConnRetry of every remote call of sync()
DEFAULT_CONN_RETRY == [tries |-> DefaultTries]

(***************************************************************************)
(* The hrefs the server reports, and the entities of a listing.            *)
(***************************************************************************)
HrefRoot == <<"/", "r", "/">>
HrefD == <<"/", "r", "/", "d", "/">>
HrefDA == <<"/", "r", "/", "d", "/", "a">>
\* "/r/%62" decodes to "/r/b"
HrefEncB == <<"/", "r", "/", "%", "6", "2">>

HrefC == <<"/", "r", "/", "c">>

Hrefs == {HrefRoot, HrefD, HrefDA, HrefEncB, HrefC}

File(h, t) == [kind |-> "File", href |-> h, last_modified |-> t]
Folder(h) == [kind |-> "Folder", href |-> h, last_modified |-> 1]

\* ListEntity values: HrefDA is reported as a file (two timestamps) or as a folder.
Entities ==
    {Folder(HrefRoot), Folder(HrefD), Folder(HrefDA),
     File(HrefDA, 1), File(HrefDA, 2), File(HrefEncB, 1), File(HrefC, 1)}

SeqUpTo(S, n) == UNION {[1..k -> S] : k \in 0..n}

\* What client.list(remote_dir, Depth::Infinity) can return.
Listings == SeqUpTo(Entities, MaxListLen)

(***************************************************************************)
(* Option<T>: None is <<>>, Some(x) is <<x>>.                              *)
(***************************************************************************)
None == <<>>
Some(x) == <<x>>
\* Option::unwrap of a Some
Unwrap(o) == o[1]

(***************************************************************************)
(* String helpers: slicing, prefix and substring tests.                    *)
(***************************************************************************)
\* &s[n..]
SliceFrom(s, n) == SubSeq(s, n + 1, Len(s))

StartsWith(s, p) == Len(p) <= Len(s) /\ SubSeq(s, 1, Len(p)) = p

\* str::contains(frag)
StrContains(s, frag) ==
    \E i \in 0..(Len(s) - Len(frag)) : SubSeq(s, i + 1, i + Len(frag)) = frag

EndsWithSlash(s) == s # <<>> /\ s[Len(s)] = "/"

(***************************************************************************)
(* urlencoding::decode: "%XY" with two hex digits is the byte 16*X+Y, a    *)
(* "%" not followed by two hex digits is kept; the bytes must be UTF-8.    *)
(***************************************************************************)
HexUpper == <<"0", "1", "2", "3", "4", "5", "6", "7", "8", "9", "A", "B", "C", "D", "E", "F">>
HexLower == <<"0", "1", "2", "3", "4", "5", "6", "7", "8", "9", "a", "b", "c", "d", "e", "f">>

IsHex(c) == \E i \in 1..16 : HexUpper[i] = c \/ HexLower[i] = c
HexVal(c) == (CHOOSE i \in 1..16 : HexUpper[i] = c \/ HexLower[i] = c) - 1

\* The ASCII bytes the hrefs of the model decode to.
Ascii == (37 :> "%") @@ (47 :> "/") @@ (97 :> "a") @@ (98 :> "b") @@ (99 :> "c") @@ (100 :> "d") @@ (114 :> "r")

\* A decoded byte as a character; "?" is any ASCII character outside the table and
\* "!" a byte above 127, which alone is not UTF-8.
Chr(b) == IF b \in DOMAIN Ascii THEN Ascii[b] ELSE IF b < 128 THEN "?" ELSE "!"

RECURSIVE DecodeBinary(_)
DecodeBinary(data) ==
    IF data = <<>> THEN <<>>
    ELSE IF data[1] # "%" THEN <<data[1]>> \o DecodeBinary(Tail(data))
    ELSE IF Len(data) < 3 THEN data
    ELSE IF ~IsHex(data[2]) THEN <<"%">> \o DecodeBinary(Tail(data))
    ELSE IF ~IsHex(data[3]) THEN <<"%", data[2]>> \o DecodeBinary(SliceFrom(data, 2))
    ELSE <<Chr(16 * HexVal(data[2]) + HexVal(data[3]))>> \o DecodeBinary(SliceFrom(data, 3))

\* Result<Cow<str>, FromUtf8Error>
Decode(data) ==
    LET bytes == DecodeBinary(data)
    IN  IF \E i \in 1..Len(bytes) : bytes[i] = "!"
        THEN [ok |-> FALSE, s |-> <<>>]
        ELSE [ok |-> TRUE, s |-> bytes]

(***************************************************************************)
(* Paths and the local filesystem under (and around) out_dir.  fs maps a   *)
(* normalised path to "file" or "dir".                                     *)
(***************************************************************************)
\* PathBuf::join: an absolute right side replaces the left side.
Join(base, rel) ==
    IF rel # <<>> /\ rel[1] = "/" THEN rel
    ELSE IF EndsWithSlash(base) THEN base \o rel
    ELSE base \o <<"/">> \o rel

\* The path as the OS resolves it: repeated and trailing separators dropped.
RECURSIVE Norm(_)
Norm(p) ==
    IF Len(p) <= 1 THEN p
    ELSE IF p[Len(p)] = "/" THEN Norm(SubSeq(p, 1, Len(p) - 1))
    ELSE LET head == Norm(SubSeq(p, 1, Len(p) - 1))
         IN  IF p[Len(p) - 1] = "/" /\ head # <<"/">> THEN head \o <<"/", p[Len(p)]>>
             ELSE head \o <<p[Len(p)]>>

\* Index of the last separator of p, 0 when it has none.
LastSlash(p) ==
    CHOOSE i \in 0..Len(p) :
        /\ i = 0 \/ p[i] = "/"
        /\ \A j \in (i + 1)..Len(p) : p[j] # "/"

\* Path::parent of a normalised path ("" is the working directory).
Parent(p) ==
    LET i == LastSlash(p)
    IN  IF i = 0 THEN <<>> ELSE IF i = 1 THEN <<"/">> ELSE SubSeq(p, 1, i - 1)

\* q is p or lies below the directory p (both normalised).
IsUnder(q, p) ==
    \/ q = p
    \/ /\ Len(q) > Len(p) + 1
       /\ SubSeq(q, 1, Len(p)) = p
       /\ q[Len(p) + 1] = "/"

\* Path::is_dir and Path::is_file; a path with a trailing separator names a directory.
IsDir(f, path) ==
    LET p == Norm(path)
    IN  p \in {<<>>, <<"/">>} \/ (p \in DOMAIN f /\ f[p] = "dir")

IsFile(f, path) ==
    LET p == Norm(path)
    IN  ~EndsWithSlash(path) /\ p \in DOMAIN f /\ f[p] = "file"

Restrict(f, S) == [x \in S |-> f[x]]

\* std::fs::remove_dir_all(path): the directory and everything below it.
RemoveDirAll(f, path) ==
    IF ~IsDir(f, path)
    THEN [ok |-> FALSE, kind |-> "NotFound", fs |-> f]
    ELSE [ok |-> TRUE, kind |-> "none",
          fs |-> Restrict(f, {q \in DOMAIN f : ~IsUnder(q, Norm(path))})]

\* std::fs::remove_file(path)
RemoveFile(f, path) ==
    IF ~IsFile(f, path)
    THEN [ok |-> FALSE, kind |-> "NotFound", fs |-> f]
    ELSE [ok |-> TRUE, kind |-> "none", fs |-> Restrict(f, DOMAIN f \ {Norm(path)})]

\* tokio::fs::DirBuilder::new().create(path): not recursive, so the parent must be
\* a directory and the path must not exist.
DirBuilderCreate(f, path) ==
    LET p == Norm(path)
    IN  IF p \in DOMAIN f \/ p \in {<<>>, <<"/">>}
        THEN [ok |-> FALSE, kind |-> "AlreadyExists", fs |-> f]
        ELSE IF ~IsDir(f, Parent(p))
        THEN [ok |-> FALSE, kind |-> "NotFound", fs |-> f]
        ELSE [ok |-> TRUE, kind |-> "none", fs |-> (p :> "dir") @@ f]

\* std::fs::File::create(path): creates or truncates a regular file.
FileCreate(f, path) ==
    LET p == Norm(path)
    IN  IF EndsWithSlash(path) \/ IsDir(f, p)
        THEN [ok |-> FALSE, kind |-> "IsADirectory", fs |-> f]
        ELSE IF ~IsDir(f, Parent(p))
        THEN [ok |-> FALSE, kind |-> "NotFound", fs |-> f]
        ELSE [ok |-> TRUE, kind |-> "none", fs |-> (p :> "file") @@ f]

(***************************************************************************)
(* versions.rs: the manifest (LocalVersion) and its file .sync.             *)
(***************************************************************************)
\* LocalFile { path, is_dir, last_modified }
LocalFile(path, is_dir, last_modified) ==
    [path |-> path, is_dir |-> is_dir, last_modified |-> last_modified]

\* LocalVersion { files: HashMap::new() }
EmptyVersion == <<>>

\* Add keeping the entry an href already has.
AddIfAbsent(files, href, file) == IF href \in DOMAIN files THEN files ELSE (href :> file) @@ files

\* LocalVersion::add: HashMap::insert, an upsert.
Add(files, href, file) == (href :> file) @@ files

\* Remove reading the entry and leaving it in the map.
RemoveKeeping(files, href) == files

\* LocalVersion::remove: the map without the key (the removed value is files[href]).
Remove(files, href) == Restrict(files, DOMAIN files \ {href})

\* chrono's serde form of a DateTime<Utc>, its RFC 3339 text, for the timestamps of
\* the model.
Rfc3339 == <<"1970-01-01T00:00:01Z", "1970-01-01T00:00:02Z">>

ParseRfc3339(text) == CHOOSE t \in 1..Len(Rfc3339) : Rfc3339[t] = text

\* The JSON values of a bool and of an Option<DateTime<Utc>>.
JsonBool(b) == IF b THEN "true" ELSE "false"
JsonOptionDateTime(o) == IF o = None THEN "null" ELSE Rfc3339[Unwrap(o)]

\* ToJson writing null for every last_modified.
ToJsonNoTimestamps(files) ==
    {[href |-> h, path |-> files[h].path, is_dir |-> JsonBool(files[h].is_dir),
      last_modified |-> "null"] : h \in DOMAIN files}

\* serde_json::to_string_pretty(&self): one member per key of files, each an object
\* with the three fields of LocalFile as JSON values.
ToJson(files) ==
    {[href |-> h, path |-> files[h].path, is_dir |-> JsonBool(files[h].is_dir),
      last_modified |-> JsonOptionDateTime(files[h].last_modified)] : h \in DOMAIN files}

\* serde_json::from_str: the map with one LocalFile per member.
FromJson(members) ==
    [h \in {m.href : m \in members} |->
        LET m == CHOOSE m \in members : m.href = h
        IN  LocalFile(m.path, m.is_dir = "true",
                      IF m.last_modified = "null" THEN None
                      ELSE Some(ParseRfc3339(m.last_modified)))]

\* The states of the file out_dir/.sync: absent, holding a serialised manifest, or
\* holding text that does not parse (empty after File::create, or cut short).
NoSyncFile == [kind |-> "absent", members |-> {}]
CorruptSyncFile == [kind |-> "corrupt", members |-> {}]
JsonSyncFile(files) == [kind |-> "json", members |-> ToJson(files)]

\* LocalVersion::load_from_file.  open is the outcome of File::open, read that of
\* read_to_string: an open error other than NotFound reaches file.unwrap().
LoadFromFile(file, io) ==
    IF io = "open_err" THEN [panicked |-> TRUE, ok |-> FALSE, files |-> EmptyVersion]
    ELSE IF file.kind = "absent" THEN [panicked |-> FALSE, ok |-> TRUE, files |-> EmptyVersion]
    ELSE IF io = "read_err" \/ file.kind = "corrupt"
    THEN [panicked |-> FALSE, ok |-> FALSE, files |-> EmptyVersion]
    ELSE [panicked |-> FALSE, ok |-> TRUE, files |-> FromJson(file.members)]

(***************************************************************************)
(* versions.rs: reconciliation.                                            *)
(***************************************************************************)
EntityHrefs(entities) == {entities[i].href : i \in 1..Len(entities)}

\* ServerVersion::from_entities: HashMap::insert per entity, so the last entity
\* of an href is the one kept.
FromEntities(server_files) ==
    [h \in EntityHrefs(server_files) |->
        server_files[CHOOSE i \in 1..Len(server_files) :
            /\ server_files[i].href = h
            /\ \A j \in (i + 1)..Len(server_files) : server_files[j].href # h]]

\* BothStatus with the timestamps never found equal: every file is stale.
BothStatusAlwaysStale(server_file, local_file) ==
    IF server_file.kind = "File" THEN "OutOfDate" ELSE "Sync"

\* The status Version::new gives an href that is in both maps.
BothStatus(server_file, local_file) ==
    IF server_file.kind = "File" /\ server_file.last_modified # Unwrap(local_file.last_modified)
    THEN "OutOfDate"
    ELSE "Sync"

\* Version::new.  last_modified.unwrap() panics on a manifest entry without a
\* timestamp whose href the server reports as a file.
VersionNew(server, local) ==
    IF \E h \in DOMAIN server \cap DOMAIN local :
          server[h].kind = "File" /\ local[h].last_modified = None
    THEN [panicked |-> TRUE, paths |-> <<>>]
    ELSE [panicked |-> FALSE,
          paths |-> [h \in DOMAIN local \cup DOMAIN server |->
                        IF h \notin DOMAIN server THEN "Local"
                        ELSE IF h \notin DOMAIN local THEN "Server"
                        ELSE BothStatus(server[h], local[h])]]

\* FilesToRemove testing for "not Sync" where the code tests for Local.
FilesToRemoveNotSync(version) == {h \in DOMAIN version.paths : version.paths[h] # "Sync"}

\* Version::files_to_remove, as the set of the hrefs it returns (their order is
\* that of the hash map's iteration).
FilesToRemove(version) == {h \in DOMAIN version.paths : version.paths[h] = "Local"}

\* FilesToDownload without the test of the status.
FilesToDownloadAll(version) == DOMAIN version.paths

\* Version::files_to_download
FilesToDownload(version) == {h \in DOMAIN version.paths : version.paths[h] # "Sync"}

\* VersionService::init
VersionServiceInit(local, entities) ==
    [version |-> VersionNew(FromEntities(entities), local), entities |-> entities]

NoVersionService == [version |-> [panicked |-> FALSE, paths |-> <<>>], entities |-> <<>>]

\* EntitiesToDownload handing the entities out last first.
EntitiesToDownloadReversed(vs) ==
    LET Keep(entity) == entity.href \in FilesToDownload(vs.version)
        kept == SelectSeq(vs.entities, Keep)
    IN  [i \in 1..Len(kept) |-> kept[Len(kept) + 1 - i]]

\* VersionService::entities_to_download
EntitiesToDownload(vs) ==
    LET to_download == FilesToDownload(vs.version)
        Keep(entity) == entity.href \in to_download
    IN  SelectSeq(vs.entities, Keep)

\* The orders in which a hash map can hand out the hrefs of S.
Orders(S) ==
    {o \in [1..Cardinality(S) -> S] : \A i, j \in 1..Cardinality(S) : o[i] = o[j] => i = j}

(***************************************************************************)
(* sync_service.rs: blacklist and path translation.                        *)
(***************************************************************************)
\* IsInBlackList comparing the href as it came, without decoding it.
IsInBlackListRaw(href) ==
    [ok |-> TRUE,
     v |-> \/ \E i \in 1..Len(BlackList) : BlackList[i] = href
           \/ \E i \in 1..Len(BlackList) : StrContains(href, BlackList[i])]

\* IsInBlackList with the test for equality alone, without the substring test.
IsInBlackListExact(href) ==
    LET decoded_href == Decode(href)
    IN  [ok |-> decoded_href.ok,
         v |-> decoded_href.ok /\ \E i \in 1..Len(BlackList) : BlackList[i] = decoded_href.s]

\* SyncService::is_in_black_list: AppResult<bool>
IsInBlackList(href) ==
    LET decoded_href == Decode(href)
    IN  [ok |-> decoded_href.ok,
         v |-> /\ decoded_href.ok
               /\ \/ \E i \in 1..Len(BlackList) : BlackList[i] = decoded_href.s
                  \/ \E i \in 1..Len(BlackList) : StrContains(decoded_href.s, BlackList[i])]

\* SyncService::define_paths: AppResult<DavPaths>
DefinePaths(file_href) ==
    LET decoded_remote_path == Decode(SliceFrom(file_href, Len(UrlPath)))
    IN  [ok |-> decoded_remote_path.ok,
         remote |-> decoded_remote_path.s,
         local |-> Join(OutDir, decoded_remote_path.s)]

\* AfterFailedTry giving up one failure late.
AfterFailedTryOneMore(tries) == [tries |-> tries - 1, give_up |-> tries - 1 < 0]

\* ConnRetry::execute_with_retries, the Err arm: one try is used up and the call
\* gives up when none is left.
AfterFailedTry(tries) == [tries |-> tries - 1, give_up |-> tries - 1 = 0]

(***************************************************************************)
(* State.                                                                  *)
(***************************************************************************)
VARIABLES
    syncFile,           \* the file out_dir/.sync
    fs,                 \* the local filesystem: normalised path -> "file" | "dir"
    remote,             \* the listing the server returns at present
    pc,                 \* where the process is: "idle" when none runs
    local_version,      \* SyncService.local_version.files
    version_service,    \* the VersionService of sync()
    to_detele,          \* delete_locals: the hrefs not yet visited
    folders_to_delete,  \* delete_locals: the directories removed so far
    to_sycn_files,      \* apply_sync: the entities not yet visited
    tries,              \* execute_with_retries: the tries left
    result,             \* outcome of the pass: status, step and kind of the error
    ops,                \* the remote and filesystem calls the process has issued, in order
    conn_retry,         \* the ConnRetry whose execute_with_retries is called
    startSync,          \* .sync as it was when the pass started
    all_passes_ok,      \* no pass so far has ended in an error, a panic or a kill
    prev                \* outcome of the pass before, when the listing is still the same

vars ==
    <<syncFile, fs, remote, pc, local_version, version_service, to_detele,
      folders_to_delete, to_sycn_files, tries, result, ops, conn_retry, startSync,
      all_passes_ok, prev>>

Outcome(status, at, kind) == [status |-> status, at |-> at, kind |-> kind]
NoOutcome == Outcome("none", "none", "none")
Running == Outcome("running", "none", "none")
Ok == Outcome("ok", "none", "none")

\* The error kinds of a call that failed for a reason outside the program: the
\* network, the disk, a permission.  The other kinds follow from the listing, the
\* manifest and the filesystem alone.
Faulted(outcome) == outcome.kind \in {"io", "transport", "open"}

\* What the next pass remembers of a pass.
Summary(outcome) ==
    [status |-> outcome.status,
     faulted |-> Faulted(outcome),
     at |-> IF outcome.status = "err" THEN outcome.at ELSE "none"]

\* A call: its name, the href it is made for and its argument (a path or a URI).
Op(name, href, arg) == [op |-> name, href |-> href, arg |-> arg]

\* A call wrapped in execute_with_retries is logged once, at its first try.
LogTry(name, href, arg) ==
    IF tries = conn_retry.tries THEN Append(ops, Op(name, href, arg)) ELSE ops

Init ==
    /\ syncFile = NoSyncFile
    /\ fs = (OutDir :> "dir")
    /\ remote = <<>>
    /\ pc = "idle"
    /\ local_version = EmptyVersion
    /\ version_service = NoVersionService
    /\ to_detele = <<>>
    /\ folders_to_delete = <<>>
    /\ to_sycn_files = <<>>
    /\ tries = 0
    /\ result = NoOutcome
    /\ ops = <<>>
    /\ conn_retry = DEFAULT_CONN_RETRY
    /\ startSync = NoSyncFile
    /\ all_passes_ok = TRUE
    /\ prev = Summary(NoOutcome)

\* The process ends.
Finish(outcome) ==
    /\ pc' = "idle"
    /\ result' = outcome
    /\ version_service' = NoVersionService
    /\ to_detele' = <<>>
    /\ folders_to_delete' = <<>>
    /\ to_sycn_files' = <<>>
    /\ tries' = 0

\* Exit writing the manifest on the way out.
ExitSavingManifest(outcome) ==
    /\ Finish(outcome)
    /\ syncFile' = JsonSyncFile(local_version)

\* The process ends before save_in_file has written: init() or sync() returns the
\* error of a step through `?`, a panic unwinds, or the process is killed.  .sync is
\* left as it is.
Exit(outcome) ==
    /\ Finish(outcome)
    /\ UNCHANGED syncFile

\* The history of the passes, kept at every step: it is clean until a pass ends
\* otherwise than with Ok.
TrackPasses ==
    all_passes_ok' = (all_passes_ok /\ result'.status \in {"none", "running", "ok"})

(***************************************************************************)
(* The server's content changes between two passes.                        *)
(***************************************************************************)
RemoteChange ==
    /\ pc = "idle"
    /\ \E listing \in Listings \ {remote} : remote' = listing
    /\ result' = NoOutcome
    /\ local_version' = EmptyVersion
    /\ ops' = <<>>
    /\ startSync' = syncFile
    /\ prev' = Summary(NoOutcome)
    /\ UNCHANGED <<syncFile, fs, pc, version_service, to_detele, folders_to_delete,
                   to_sycn_files, tries, conn_retry>>
    /\ TrackPasses

(***************************************************************************)
(* SyncService::init: the manifest is loaded.                              *)
(***************************************************************************)
SyncServiceInit ==
    /\ pc = "idle"
    /\ prev' = Summary(result)
    /\ startSync' = syncFile
    /\ ops' = <<Op("load", <<>>, <<>>)>>
    /\ \E io \in (IF syncFile.kind = "absent" THEN {"ok", "open_err"}
                  ELSE {"ok", "open_err", "read_err"}) :
        LET loaded == LoadFromFile(syncFile, io)
        IN  /\ local_version' = loaded.files
            /\ IF loaded.panicked THEN Exit(Outcome("panic", "init", "open"))
               ELSE IF ~loaded.ok
               THEN Exit(Outcome("err", "init", IF io = "read_err" THEN "io" ELSE "parse"))
               ELSE /\ pc' = "listing"
                    /\ tries' = conn_retry.tries
                    /\ result' = Running
                    /\ UNCHANGED <<version_service, to_detele, folders_to_delete,
                                   to_sycn_files, syncFile>>
    /\ UNCHANGED <<fs, remote, conn_retry>>
    /\ TrackPasses

(***************************************************************************)
(* SyncService::sync.                                                      *)
(***************************************************************************)
\* sync(), after delete_locals returned Ok: entities_to_download, then apply_sync,
\* whose loop is left at once when nothing is to fetch.
EnterApplySync(vs) ==
    LET to_sync == EntitiesToDownload(vs)
    IN  /\ to_sycn_files' = to_sync
        /\ pc' = IF to_sync = <<>> THEN "persist" ELSE "applying"
        /\ tries' = conn_retry.tries

\* One try of client.list inside execute_with_retries; on success
\* VersionService::init and files_to_remove follow without a suspension.
ListTry ==
    /\ pc = "listing"
    /\ ops' = LogTry("list", <<>>, <<>>)
    /\ \/ /\ LET r == AfterFailedTry(tries)
             IN  IF r.give_up
                 THEN Exit(Outcome("err", "list", "transport"))
                 ELSE /\ tries' = r.tries
                      /\ UNCHANGED <<pc, result, version_service, to_detele,
                                     folders_to_delete, to_sycn_files, syncFile>>
       \/ /\ LET vs == VersionServiceInit(local_version, remote)
             IN  IF vs.version.panicked
                 THEN Exit(Outcome("panic", "reconcile", "unwrap"))
                 ELSE \E order \in Orders(FilesToRemove(vs.version)) :
                        /\ version_service' = vs
                        /\ to_detele' = order
                        /\ folders_to_delete' = <<>>
                        /\ UNCHANGED <<result, syncFile>>
                        /\ IF order # <<>>
                           THEN /\ pc' = "deleting"
                                /\ UNCHANGED <<to_sycn_files, tries>>
                           ELSE EnterApplySync(vs)
    /\ UNCHANGED <<fs, remote, local_version, conn_retry, startSync, prev>>
    /\ TrackPasses

\* DeleteKind going by the entry's path alone, without asking the filesystem.
DeleteKindNoStat(f, path) == IF EndsWithSlash(path) THEN "dir" ELSE "file"

\* What delete_locals does with the path of a removed entry.
DeleteKind(f, path) ==
    IF IsDir(f, path) THEN "dir" ELSE IF IsFile(f, path) THEN "file" ELSE "skip"

\* delete_locals, after one href: the loop goes on, or sync() goes on.
DeleteLocalsNext(rest) ==
    /\ to_detele' = rest
    /\ UNCHANGED <<result, version_service, syncFile>>
    /\ IF rest # <<>>
       THEN /\ pc' = "deleting"
            /\ UNCHANGED <<to_sycn_files, tries>>
       ELSE EnterApplySync(version_service)

\* SyncService::delete_locals: one turn of its loop.
DeleteLocalsStep ==
    /\ pc = "deleting"
    /\ LET href == Head(to_detele)
           rest == Tail(to_detele)
       IN  IF href \notin DOMAIN local_version
           THEN /\ Exit(Outcome("panic", "delete", "unwrap"))
                /\ UNCHANGED <<local_version, fs, ops>>
           ELSE
           LET path == local_version[href].path
               kind == DeleteKind(fs, path)
               removed == IF kind = "dir" THEN RemoveDirAll(fs, path) ELSE RemoveFile(fs, path)
           IN  /\ local_version' = Remove(local_version, href)
               /\ IF kind = "skip"
                  THEN /\ DeleteLocalsNext(rest)
                       /\ UNCHANGED <<fs, ops, folders_to_delete>>
                  ELSE /\ ops' = Append(ops, Op(IF kind = "dir" THEN "remove_dir_all"
                                                 ELSE "remove_file", href, path))
                       /\ \E io \in {"ok", "err"} :
                            IF io = "err"
                            THEN /\ Exit(Outcome("err", "delete", "io"))
                                 /\ UNCHANGED fs
                            ELSE IF ~removed.ok
                            THEN /\ Exit(Outcome("err", "delete", removed.kind))
                                 /\ UNCHANGED fs
                            ELSE /\ fs' = removed.fs
                                 /\ folders_to_delete' =
                                        IF kind = "dir" THEN Append(folders_to_delete, path)
                                        ELSE folders_to_delete
                                 /\ DeleteLocalsNext(rest)
    /\ UNCHANGED <<remote, conn_retry, startSync, prev>>
    /\ TrackPasses

\* apply_sync, after one entity: the loop goes on, or sync() goes on to save_in_file.
ApplySyncNext ==
    /\ to_sycn_files' = Tail(to_sycn_files)
    /\ pc' = IF Tail(to_sycn_files) = <<>> THEN "persist" ELSE "applying"
    /\ tries' = conn_retry.tries
    /\ UNCHANGED <<result, version_service, to_detele, folders_to_delete, syncFile>>

\* &file.href[self.config.host.path().len()..]
DownloadUri(href) == SliceFrom(href, Len(HostPath))

\* SyncService::create_dir
CreateDir(folder) ==
    LET remote_dir_path == SliceFrom(folder.href, Len(UrlPath))
        decoded == Decode(remote_dir_path)
        path == Join(OutDir, decoded.s)
        made == DirBuilderCreate(fs, path)
    IN  IF remote_dir_path = <<>>
        THEN /\ ApplySyncNext
             /\ UNCHANGED <<fs, local_version, ops>>
        ELSE IF ~decoded.ok
        THEN /\ Exit(Outcome("err", "apply", "decode"))
             /\ UNCHANGED <<fs, local_version, ops>>
        ELSE /\ ops' = Append(ops, Op("mkdir", folder.href, path))
             /\ \E io \in {"ok", "err"} :
                  IF io = "err"
                  THEN /\ Exit(Outcome("err", "apply", "io"))
                       /\ UNCHANGED <<fs, local_version>>
                  ELSE IF ~made.ok
                  THEN /\ Exit(Outcome("err", "apply", made.kind))
                       /\ UNCHANGED <<fs, local_version>>
                  ELSE /\ fs' = made.fs
                       /\ local_version' =
                              Add(local_version, folder.href, LocalFile(path, TRUE, None))
                       /\ ApplySyncNext

\* SyncService::download_file: one try of client.get fails.
DownloadFileGetFails(file) ==
    /\ ops' = LogTry("get", file.href, DownloadUri(file.href))
    /\ LET r == AfterFailedTry(tries)
       IN  IF r.give_up
           THEN Exit(Outcome("err", "apply", "transport"))
           ELSE /\ tries' = r.tries
                /\ UNCHANGED <<pc, result, version_service, to_detele,
                               folders_to_delete, to_sycn_files, syncFile>>
    /\ UNCHANGED <<fs, local_version>>

\* SyncService::download_file: client.get answers and the body cannot be read.
DownloadFileBytesFail(file) ==
    /\ ops' = LogTry("get", file.href, DownloadUri(file.href))
    /\ Exit(Outcome("err", "apply", "transport"))
    /\ UNCHANGED <<fs, local_version>>

\* SyncService::download_file: the bytes are there; define_paths, File::create,
\* write_all and the upsert of the manifest entry.
DownloadFileWrite(file) ==
    LET paths == DefinePaths(file.href)
        created == FileCreate(fs, paths.local)
        got == LogTry("get", file.href, DownloadUri(file.href))
    IN  IF ~paths.ok
        THEN /\ ops' = got
             /\ Exit(Outcome("err", "apply", "decode"))
             /\ UNCHANGED <<fs, local_version>>
        ELSE /\ ops' = Append(got, Op("create", file.href, paths.local))
             /\ \E io \in {"ok", "create_err", "write_err"} :
                  IF io = "create_err"
                  THEN /\ Exit(Outcome("err", "apply", "io"))
                       /\ UNCHANGED <<fs, local_version>>
                  ELSE IF ~created.ok
                  THEN /\ io = "ok"
                       /\ Exit(Outcome("err", "apply", created.kind))
                       /\ UNCHANGED <<fs, local_version>>
                  ELSE IF io = "write_err"
                  THEN /\ fs' = created.fs
                       /\ Exit(Outcome("err", "apply", "io"))
                       /\ UNCHANGED local_version
                  ELSE /\ fs' = created.fs
                       /\ local_version' =
                              Add(local_version, file.href,
                                  LocalFile(paths.local, FALSE, Some(file.last_modified)))
                       /\ ApplySyncNext

DownloadFile(file) ==
    \/ DownloadFileGetFails(file)
    \/ DownloadFileBytesFail(file)
    \/ DownloadFileWrite(file)

\* SyncService::apply_sync: one turn of its loop.
ApplySyncStep ==
    /\ pc = "applying"
    /\ LET f == Head(to_sycn_files)
           black == IsInBlackList(f.href)
       IN  IF ~black.ok
           THEN /\ Exit(Outcome("err", "apply", "decode"))
                /\ UNCHANGED <<fs, local_version, ops>>
           ELSE IF black.v
           THEN /\ ApplySyncNext
                /\ UNCHANGED <<fs, local_version, ops>>
           ELSE IF f.kind = "File" THEN DownloadFile(f) ELSE CreateDir(f)
    /\ UNCHANGED <<remote, conn_retry, startSync, prev>>
    /\ TrackPasses

\* LocalVersion::save_in_file: File::create(path) leaves .sync empty.
SaveInFileCreate ==
    /\ pc = "persist"
    /\ ops' = Append(ops, Op("save_create", <<>>, <<>>))
    /\ \E io \in {"ok", "err"} :
         IF io = "err"
         THEN Exit(Outcome("err", "save", "io"))
         ELSE /\ syncFile' = CorruptSyncFile
              /\ pc' = "write"
              /\ UNCHANGED <<result, version_service, to_detele,
                             folders_to_delete, to_sycn_files, tries>>
    /\ UNCHANGED <<fs, remote, local_version, conn_retry, startSync, prev>>
    /\ TrackPasses

\* LocalVersion::save_in_file: file.write_all(json), and sync() returns Ok.
SaveInFileWrite ==
    /\ pc = "write"
    /\ ops' = Append(ops, Op("save_write", <<>>, <<>>))
    /\ \E io \in {"ok", "err"} :
         IF io = "err"
         THEN Exit(Outcome("err", "save", "io"))
         ELSE /\ syncFile' = JsonSyncFile(local_version)
              /\ Finish(Ok)
    /\ UNCHANGED <<fs, remote, local_version, conn_retry, startSync, prev>>
    /\ TrackPasses

\* The process is killed (or the machine stops) between two steps: nothing of it
\* is left but the files.
Kill ==
    /\ pc # "idle"
    /\ Exit(Outcome("killed", pc, "none"))
    /\ local_version' = EmptyVersion
    /\ ops' = <<>>
    /\ UNCHANGED <<fs, remote, conn_retry, startSync, prev>>
    /\ TrackPasses

Next ==
    \/ RemoteChange
    \/ SyncServiceInit
    \/ ListTry
    \/ DeleteLocalsStep
    \/ ApplySyncStep
    \/ SaveInFileCreate
    \/ SaveInFileWrite
    \/ Kill

Spec == Init /\ [][Next]_vars

(***************************************************************************)
(* ConnRetry::execute_with_retries on its own: a ConnRetry with any count  *)
(* of tries from 1 to MaxTries wraps an operation f whose every invocation *)
(* returns, with a value or with an error.                                 *)
(***************************************************************************)
\* What one invocation of f can return: Ok(value) or Err(error).
FResults ==
    {[ok |-> TRUE, v |-> v] : v \in {"v1", "v2"}}
        \cup {[ok |-> FALSE, v |-> e] : e \in {"e1", "e2", "e3"}}

RetryInit ==
    /\ syncFile = NoSyncFile
    /\ fs = (OutDir :> "dir")
    /\ remote = <<>>
    /\ pc = "call"
    /\ local_version = EmptyVersion
    /\ version_service = NoVersionService
    /\ to_detele = <<>>
    /\ folders_to_delete = <<>>
    /\ to_sycn_files = <<>>
    /\ tries = 0
    /\ result = NoOutcome
    /\ ops = <<>>
    /\ conn_retry \in {[tries |-> n] : n \in 1..MaxTries}
    /\ startSync = NoSyncFile
    /\ all_passes_ok = TRUE
    /\ prev = Summary(NoOutcome)

\* let mut tries = self.tries;
ExecuteWithRetriesEnter ==
    /\ pc = "call"
    /\ tries' = conn_retry.tries
    /\ pc' = "loop"
    /\ UNCHANGED <<syncFile, fs, remote, local_version, version_service, to_detele,
                   folders_to_delete, to_sycn_files, result, ops, conn_retry, startSync,
                   prev, all_passes_ok>>

\* One turn of the loop: f().await, then the Ok arm or the Err arm.
ExecuteWithRetriesTry ==
    /\ pc = "loop"
    /\ \E res \in FResults :
        /\ ops' = Append(ops, Op("f", <<>>, res))
        /\ IF res.ok
           THEN /\ result' = Outcome("ok", "retry", res.v)
                /\ pc' = "returned"
                /\ UNCHANGED tries
           ELSE LET r == AfterFailedTry(tries)
                IN  /\ tries' = r.tries
                    /\ IF r.give_up
                       THEN /\ result' = Outcome("err", "retry", res.v)
                            /\ pc' = "returned"
                       ELSE UNCHANGED <<result, pc>>
    /\ UNCHANGED <<syncFile, fs, remote, local_version, version_service, to_detele,
                   folders_to_delete, to_sycn_files, conn_retry, startSync, prev, all_passes_ok>>

RetryNext ==
    \/ ExecuteWithRetriesEnter
    \/ ExecuteWithRetriesTry

\* Every invocation of f returns: a turn of the loop that can be taken is taken.
RetrySpec == RetryInit /\ [][RetryNext]_vars /\ WF_vars(RetryNext)

(***************************************************************************)
(* SyncService::clear_out_dir, the clear command, on an output directory   *)
(* with or without .sync and with any content; it can be run again.        *)
(***************************************************************************)
\* The output directories the command is run on: out_dir with any of d, d/a and c
\* below it, each a file or a directory.
ClearTrees ==
    LET d == Norm(Join(OutDir, <<"d">>))
        da == Norm(Join(OutDir, <<"d", "/", "a">>))
        c == Norm(Join(OutDir, <<"c">>))
        Trees == UNION {[S -> {"file", "dir"}] : S \in SUBSET {d, da, c}}
    IN  {(OutDir :> "dir") @@ t : t \in {t \in Trees : da \in DOMAIN t => IsDir(t, d)}}

ClearInit ==
    /\ syncFile \in {NoSyncFile, CorruptSyncFile, JsonSyncFile(EmptyVersion)}
    /\ fs \in ClearTrees
    /\ remote = <<>>
    /\ pc = "clear_call"
    /\ local_version = EmptyVersion
    /\ version_service = NoVersionService
    /\ to_detele = <<>>
    /\ folders_to_delete = <<>>
    /\ to_sycn_files = <<>>
    /\ tries = 0
    /\ result = NoOutcome
    /\ ops = <<>>
    /\ conn_retry = DEFAULT_CONN_RETRY
    /\ startSync = syncFile
    /\ all_passes_ok = TRUE
    /\ prev = Summary(NoOutcome)

\* SyncMarker with the test the wrong way round.
SyncMarkerMissing(file) == file.kind = "absent"

\* db_file_location.is_file(): .sync is there.
SyncMarker(file) == file.kind # "absent"

\* The entries of out_dir that read_dir has still to hand out: .sync, when the file
\* is there, and the files and directories right below out_dir.
SyncEntry(file) == file.kind # "absent"
DirEntries(f) == {q \in DOMAIN f : q # OutDir /\ Parent(q) = OutDir}

\* clear_out_dir returns.
ClearReturn(outcome) ==
    /\ pc' = "cleared"
    /\ result' = outcome

\* clear_out_dir up to read_dir.
ClearOutDirEnter ==
    /\ pc = "clear_call"
    /\ IF ~SyncMarker(syncFile)
       THEN ClearReturn(Outcome("ok", "clear", "none"))
       ELSE \E io \in {"ok", "err"} :
              IF io = "err" THEN ClearReturn(Outcome("err", "clear", "io"))
              ELSE pc' = "clearing" /\ UNCHANGED result
    /\ UNCHANGED <<syncFile, fs, remote, local_version, version_service, to_detele,
                   folders_to_delete, to_sycn_files, tries, ops, conn_retry, startSync,
                   prev, all_passes_ok>>

\* One turn of the loop over read_dir, whose order is the directory's, or its end.
ClearOutDirStep ==
    /\ pc = "clearing"
    /\ \/ /\ ~SyncEntry(syncFile)
          /\ DirEntries(fs) = {}
          /\ ClearReturn(Outcome("ok", "clear", "none"))
          /\ UNCHANGED <<syncFile, fs, ops>>
       \/ /\ SyncEntry(syncFile)
          /\ ops' = Append(ops, Op("remove_file", <<>>, Join(OutDir, <<".", "s", "y", "n", "c">>)))
          /\ \E io \in {"ok", "err"} :
               IF io = "err"
               THEN ClearReturn(Outcome("err", "clear", "io")) /\ UNCHANGED syncFile
               ELSE syncFile' = NoSyncFile /\ UNCHANGED <<pc, result>>
          /\ UNCHANGED fs
       \/ \E path \in DirEntries(fs) :
            LET removed == IF IsDir(fs, path) THEN RemoveDirAll(fs, path)
                           ELSE RemoveFile(fs, path)
            IN  /\ ops' = Append(ops, Op(IF IsDir(fs, path) THEN "remove_dir_all"
                                         ELSE "remove_file", <<>>, path))
                /\ \E io \in {"ok", "err"} :
                     IF io = "err" \/ ~removed.ok
                     THEN ClearReturn(Outcome("err", "clear", "io")) /\ UNCHANGED fs
                     ELSE fs' = removed.fs /\ UNCHANGED <<pc, result>>
                /\ UNCHANGED syncFile
    /\ UNCHANGED <<remote, local_version, version_service, to_detele, folders_to_delete,
                   to_sycn_files, tries, conn_retry, startSync, prev, all_passes_ok>>

\* The clear command is run again on the directory as the last run left it.
ClearAgain ==
    /\ pc = "cleared"
    /\ pc' = "clear_call"
    /\ prev' = Summary(result)
    /\ startSync' = syncFile
    /\ result' = NoOutcome
    /\ ops' = <<>>
    /\ UNCHANGED <<syncFile, fs, remote, local_version, version_service, to_detele,
                   folders_to_delete, to_sycn_files, tries, conn_retry, all_passes_ok>>

ClearNext ==
    \/ ClearOutDirEnter
    \/ ClearOutDirStep
    \/ ClearAgain

ClearSpec == ClearInit /\ [][ClearNext]_vars

(***************************************************************************)
(* Path translation alone: define_paths and the path computation of        *)
(* create_dir applied to one href of the listing.  The server chooses the  *)
(* href; the model draws its remainder after the root's path from the      *)
(* strings over PathChars, which spell separators, parent-directory        *)
(* segments, "%2F" and byte sequences that are not UTF-8.  The outcome of  *)
(* the operating system's mkdir is a choice, the tree outside out_dir not  *)
(* being part of the model.                                                *)
(***************************************************************************)
MaxRestLen == 4

PathChars == {"a", "/", ".", "%", "2", "F"}

\* The hrefs a listing of the root can hold: the root's path and a remainder.
PathHrefs == {UrlPath \o rest : rest \in SeqUpTo(PathChars, MaxRestLen)}

PathEntities == {File(h, 1) : h \in PathHrefs} \cup {Folder(h) : h \in PathHrefs}

PathInit ==
    /\ syncFile = NoSyncFile
    /\ fs = (OutDir :> "dir")
    /\ remote \in {<<e>> : e \in PathEntities}
    /\ pc = "path_call"
    /\ local_version = EmptyVersion
    /\ version_service = NoVersionService
    /\ to_detele = <<>>
    /\ folders_to_delete = <<>>
    /\ to_sycn_files = <<>>
    /\ tries = 0
    /\ result = NoOutcome
    /\ ops = <<>>
    /\ conn_retry = DEFAULT_CONN_RETRY
    /\ startSync = NoSyncFile
    /\ all_passes_ok = TRUE
    /\ prev = Summary(NoOutcome)

PathReturn(outcome) ==
    /\ pc' = "path_done"
    /\ result' = outcome

\* The path create_dir hands to DirBuilder: none for the root itself, an error when
\* the remainder does not decode.
CreateDirPath(folder) ==
    LET remote_dir_path == SliceFrom(folder.href, Len(UrlPath))
        decoded == Decode(remote_dir_path)
    IN  [empty |-> remote_dir_path = <<>>,
         ok |-> decoded.ok,
         path |-> Join(OutDir, decoded.s)]

\* define_paths for the href of a file, as download_file calls it before File::create.
PathDefinePaths ==
    /\ pc = "path_call"
    /\ remote[1].kind = "File"
    /\ LET paths == DefinePaths(remote[1].href)
       IN  IF ~paths.ok
           THEN PathReturn(Outcome("err", "define_paths", "decode")) /\ UNCHANGED ops
           ELSE /\ ops' = Append(ops, Op("create", remote[1].href, paths.local))
                /\ PathReturn(Ok)
    /\ UNCHANGED <<syncFile, fs, remote, local_version, version_service, to_detele,
                   folders_to_delete, to_sycn_files, tries, conn_retry, startSync,
                   prev, all_passes_ok>>

\* create_dir for the href of a folder.
PathCreateDir ==
    /\ pc = "path_call"
    /\ remote[1].kind = "Folder"
    /\ LET dir == CreateDirPath(remote[1])
       IN  IF dir.empty
           THEN PathReturn(Ok) /\ UNCHANGED <<ops, local_version>>
           ELSE IF ~dir.ok
           THEN /\ PathReturn(Outcome("err", "create_dir", "decode"))
                /\ UNCHANGED <<ops, local_version>>
           ELSE /\ ops' = Append(ops, Op("mkdir", remote[1].href, dir.path))
                /\ \E io \in {"ok", "err"} :
                     IF io = "err"
                     THEN /\ PathReturn(Outcome("err", "create_dir", "io"))
                          /\ UNCHANGED local_version
                     ELSE /\ local_version' =
                                 Add(local_version, remote[1].href,
                                     LocalFile(dir.path, TRUE, None))
                          /\ PathReturn(Ok)
    /\ UNCHANGED <<syncFile, fs, remote, version_service, to_detele,
                   folders_to_delete, to_sycn_files, tries, conn_retry, startSync,
                   prev, all_passes_ok>>

PathNext ==
    \/ PathDefinePaths
    \/ PathCreateDir

PathSpec == PathInit /\ [][PathNext]_vars

(***************************************************************************)
(* Properties.                                                             *)
(***************************************************************************)
\* The manifest the pass loaded.
Manifest0 == LoadFromFile(startSync, "ok").files

\* sync() has built its VersionService and is past VersionService::init.
Reconciled == pc \in {"deleting", "applying", "persist", "write"}

\* VersionService::init was called in this pass (it returned or panicked).
ReconcileRan == Reconciled \/ (pc = "idle" /\ result.at = "reconcile")

\* delete_locals has returned Ok.
DeleteDone == pc \in {"applying", "persist", "write"}

OpsNamed(names) == {i \in 1..Len(ops) : ops[i].op \in names}

RemoveOps == OpsNamed({"remove_dir_all", "remove_file"})
FetchOps == OpsNamed({"get", "mkdir", "create"})

\* The decoded href equals or contains a blacklist fragment.
Blacklisted(href) ==
    LET d == Decode(href)
    IN  /\ d.ok
        /\ \E i \in 1..Len(BlackList) : BlackList[i] = d.s \/ StrContains(d.s, BlackList[i])

\* The href of the folder that holds h.
HrefParent(h) ==
    LET bare == IF EndsWithSlash(h) THEN SubSeq(h, 1, Len(h) - 1) ELSE h
    IN  SubSeq(bare, 1, LastSlash(bare))

\* A listing as a WebDAV server sends it: no href twice, every href decodable, and
\* every entity below the listed root preceded by the folder that holds it.
ParentsFirst(listing) ==
    /\ \A i, j \in 1..Len(listing) : listing[i].href = listing[j].href => i = j
    /\ \A i \in 1..Len(listing) :
        /\ Decode(listing[i].href).ok
        /\ \/ listing[i].href = UrlPath
           \/ HrefParent(listing[i].href) = UrlPath
           \/ \E j \in 1..(i - 1) :
                listing[j].kind = "Folder" /\ listing[j].href = HrefParent(listing[i].href)

\* C1: idempotence of sync().  A pass that follows a successful pass, with the
\* listing, the blacklist and the local directory unchanged in between, removes no
\* local file or directory, downloads no file and creates no directory; it fails only
\* through an outside fault, and when it succeeds .sync holds the manifest the first
\* pass persisted.
C1_Idempotent ==
    (prev.status = "ok" /\ result.status # "none") =>
        /\ RemoveOps = {}
        /\ FetchOps = {}
        /\ result.status \in {"err", "panic"} => Faulted(result)
        /\ (pc = "idle" /\ result.status = "ok") => syncFile = startSync

C1_Witness ==
    /\ prev.status = "ok"
    /\ pc = "idle"
    /\ result.status = "ok"
    /\ \E m \in syncFile.members : m.is_dir = "false"
    /\ \E m \in syncFile.members : m.is_dir = "true"

\* C2: recovery by re-running.  When a pass over a listing as a server sends it was
\* aborted by an outside fault of the listing call, of a deletion, of a directory
\* creation, of a download or of a local write, the next pass over the same listing,
\* started from the persisted manifest and the filesystem the failed pass left, does
\* not end in an error or a panic that no fault of its own explains.
C2_RerunSucceeds ==
    ( /\ prev.status = "err"
      /\ prev.faulted
      /\ prev.at \in {"list", "delete", "apply"}
      /\ ParentsFirst(remote)
      /\ pc = "idle"
      /\ result.status \in {"err", "panic"} ) => Faulted(result)

\* C3: error abort keeps the persisted manifest.  When sync() returns an error of the
\* listing call, of delete_locals or of apply_sync, no later step has run and .sync is
\* what it was when the pass started.
C3_ErrorKeepsManifest ==
    (pc = "idle" /\ result.status = "err" /\ result.at \in {"list", "delete", "apply"}) =>
        /\ syncFile = startSync
        /\ OpsNamed({"save_create", "save_write"}) = {}
        /\ result.at = "list" => OpsNamed({"load", "list"}) = DOMAIN ops
        /\ result.at = "delete" => FetchOps = {}

C3_Witness ==
    /\ pc = "idle"
    /\ result.status = "err"
    /\ result.at = "apply"
    /\ startSync.kind = "json"
    /\ startSync.members # {}
    /\ DOMAIN local_version # DOMAIN Manifest0

\* C4: crash atomicity of the manifest.  Wherever the process is stopped, .sync holds
\* a complete manifest (or does not exist yet), so that the next load_from_file
\* succeeds.
C4_ManifestAtomic ==
    (pc = "idle" /\ result.status = "killed") => LoadFromFile(syncFile, "ok").ok

\* The status the classification rule gives href h.
RuleStatus(local, entities, h) ==
    IF h \notin EntityHrefs(entities) THEN "Local"
    ELSE IF h \notin DOMAIN local THEN "Server"
    ELSE LET e == FromEntities(entities)[h]
         IN  IF e.kind = "Folder" THEN "Sync"
             ELSE IF local[h].last_modified = Some(e.last_modified) THEN "Sync"
             ELSE "OutOfDate"

\* C5: classification rule of Version::new.  For the manifest and the listing of every
\* pass, each href gets the status of the rule: Local when only in the manifest, Server
\* when only in the listing, Sync for a remote directory in both, and for a remote file
\* in both Sync when the timestamps are equal and OutOfDate when they differ, which
\* puts the href in the download set and not in the remove set.
C5_ClassificationRule ==
    ReconcileRan =>
        LET v == VersionNew(FromEntities(remote), Manifest0)
        IN  /\ ~v.panicked
            /\ \A h \in DOMAIN Manifest0 \cup EntityHrefs(remote) :
                /\ v.paths[h] = RuleStatus(Manifest0, remote, h)
                /\ v.paths[h] = "OutOfDate" =>
                       h \in FilesToDownload(v) /\ h \notin FilesToRemove(v)

\* C6: partition.  For the manifest and the listing of every pass, Version::new builds
\* a status map whose keys are exactly the manifest keys and the listing's hrefs, each
\* with one of the four statuses.
C6_Partition ==
    ReconcileRan =>
        LET v == VersionNew(FromEntities(remote), Manifest0)
        IN  /\ ~v.panicked
            /\ DOMAIN v.paths = DOMAIN Manifest0 \cup EntityHrefs(remote)
            /\ \A h \in DOMAIN v.paths : v.paths[h] \in {"Local", "Server", "OutOfDate", "Sync"}

\* s is what is left of t after some of its first elements are dropped.
IsSuffix(s, t) == Len(s) <= Len(t) /\ s = SubSeq(t, Len(t) - Len(s) + 1, Len(t))

\* C7: entities_to_download() returns the entities of the listing whose href has
\* status Server or OutOfDate, in listing order and unchanged, and apply_sync visits
\* them in that order; for an empty manifest and a listing of one file it returns the
\* listing.
C7_EntitiesToDownload ==
    Reconciled =>
        LET status == version_service.version.paths
            Wanted(e) == status[e.href] \in {"Server", "OutOfDate"}
            got == EntitiesToDownload(version_service)
        IN  /\ version_service.entities = remote
            /\ got = SelectSeq(remote, Wanted)
            /\ (Manifest0 = EmptyVersion /\ Len(remote) = 1 /\ remote[1].kind = "File")
                   => got = remote
            /\ DeleteDone => IsSuffix(to_sycn_files, got)

C7_Witness ==
    /\ pc = "applying"
    /\ \E i \in 1..Len(remote) : version_service.version.paths[remote[i].href] = "Sync"
    /\ \E i \in 1..Len(remote) : version_service.version.paths[remote[i].href] = "OutOfDate"
    /\ Len(to_sycn_files) = 1

\* C8: files_to_remove() returns, each once, the manifest keys that the listing does
\* not hold; with an empty listing these are all the keys, and after the pass the
\* manifest is empty and no entry's path is left on disk.
C8_FilesToRemove ==
    /\ Reconciled =>
        /\ FilesToRemove(version_service.version) = DOMAIN Manifest0 \ EntityHrefs(remote)
        /\ \A i, j \in 1..Len(to_detele) : to_detele[i] = to_detele[j] => i = j
        /\ pc = "deleting" =>
               {to_detele[i] : i \in 1..Len(to_detele)} =
                   FilesToRemove(version_service.version) \cap DOMAIN local_version
    /\ (pc = "idle" /\ result.status = "ok" /\ remote = <<>>) =>
        /\ syncFile = JsonSyncFile(EmptyVersion)
        /\ \A h \in DOMAIN Manifest0 : Norm(Manifest0[h].path) \notin DOMAIN fs

C8_Witness ==
    /\ pc = "idle"
    /\ result.status = "ok"
    /\ remote = <<>>
    /\ Cardinality(DOMAIN Manifest0) = 2
    /\ OpsNamed({"remove_file"}) # {}

\* C9: no double delete.  Whatever the order of the remove set, delete_locals issues
\* no delete for a path that lies in a directory it has removed, fails only when a
\* delete fails for an outside reason, and once it has returned no Local href is left
\* in the manifest.
C9_NoDoubleDelete ==
    /\ \A i, j \in RemoveOps :
        (i < j /\ ops[i].op = "remove_dir_all") =>
            ~IsUnder(Norm(ops[j].arg), Norm(ops[i].arg))
    /\ (result.status \in {"err", "panic"} /\ result.at = "delete") => result.kind = "io"
    /\ DeleteDone => DOMAIN local_version \cap FilesToRemove(version_service.version) = {}

\* The directory was visited first: both entries are dropped with one delete.
C9_Witness ==
    /\ DeleteDone
    /\ \E h1, h2 \in FilesToRemove(version_service.version) :
        /\ h1 # h2
        /\ Manifest0[h1].is_dir
        /\ IsUnder(Norm(Manifest0[h2].path), Norm(Manifest0[h1].path))
    /\ Cardinality(RemoveOps) = 1
    /\ \A i \in RemoveOps : ops[i].op = "remove_dir_all"

\* C10, as claimed: no entity that entities_to_download() returns has a blacklisted
\* href.
C10_NotInDownloadSet ==
    Reconciled =>
        LET got == EntitiesToDownload(version_service)
        IN  \A i \in 1..Len(got) : ~Blacklisted(got[i].href)

\* C10, amended: a blacklisted entity can be in the list entities_to_download()
\* returns, and apply_sync skips it: no file is downloaded or created and no directory
\* is created for a blacklisted href of that list.
C10_BlacklistedNotFetched ==
    \A i \in FetchOps : ~Blacklisted(ops[i].href)

C10_Witness ==
    /\ pc = "persist"
    /\ LET got == EntitiesToDownload(version_service)
       IN  \E i \in 1..Len(got) : Blacklisted(got[i].href)
    /\ FetchOps # {}

\* C11: blacklisted hrefs never enter the manifest.  From the empty manifest and
\* over every sequence of passes, ended by success, error, panic or kill, no key of the
\* manifest in memory or in .sync is blacklisted, no call that fetches or creates is
\* made for a blacklisted href, and nothing exists at the local path of one.
C11_BlacklistedNeverInManifest ==
    /\ \A h \in DOMAIN local_version : ~Blacklisted(h)
    /\ \A m \in syncFile.members : ~Blacklisted(m.href)
    /\ \A i \in FetchOps : ~Blacklisted(ops[i].href)
    /\ \A h \in Hrefs : Blacklisted(h) => Norm(DefinePaths(h).local) \notin DOMAIN fs

\* The second of two successful passes over a listing with a blacklisted href.
C11_Witness ==
    /\ prev.status = "ok"
    /\ pc = "idle"
    /\ result.status = "ok"
    /\ \E i \in 1..Len(remote) : Blacklisted(remote[i].href)
    /\ syncFile.members # {}

\* The invocations of f so far, and what they returned.
Invocations == OpsNamed({"f"})

C12_Bounded ==
    /\ Cardinality(Invocations) <= conn_retry.tries
    /\ \A i \in Invocations : i < Len(ops) => ~ops[i].arg.ok
    /\ pc = "returned" =>
        /\ ops # <<>>
        /\ result.status = (IF ops[Len(ops)].arg.ok THEN "ok" ELSE "err")
        /\ result.kind = ops[Len(ops)].arg.v
        /\ result.status = "err" => Len(ops) = conn_retry.tries

\* C12: execute_with_retries with N >= 1 tries invokes the operation at most N times
\* and never after an invocation succeeded; it returns the value of the first
\* invocation that succeeds, or the error of the N-th invocation when all N fail; and
\* it returns whenever every invocation returns.
C12_ExecuteWithRetries == []C12_Bounded /\ <>(pc = "returned")

\* All the tries were used and the last error, which differs from the first, came back.
C12_Witness ==
    /\ pc = "returned"
    /\ conn_retry.tries = DefaultTries
    /\ Len(ops) = DefaultTries
    /\ result.status = "err"
    /\ ops[1].arg.v # result.kind

\* The calls that act on the local filesystem.
LocalOpNames == {"remove_dir_all", "remove_file", "mkdir", "create", "save_create", "save_write"}

\* C13: retry scope.  A pass returns a transport error only from the last of the
\* bounded tries of the remote operation that failed, the listing call or the download
\* of a file with the reading of its bytes; it returns the error of a local filesystem
\* call from the one attempt of that call.
C13_RetryScope ==
    [][(result.status = "running" /\ result'.status = "err") =>
          /\ result'.kind = "transport" => tries = 1
          /\ result'.kind \notin {"transport", "decode"} =>
                Cardinality({i \in (Len(ops) + 1)..Len(ops') : ops'[i].op \in LocalOpNames}) = 1]_vars

\* The step of a pass a call belongs to: Init, Listed, Deleted, Fetched, Persisted.
StepOf(name) ==
    CASE name = "load" -> 0
      [] name = "list" -> 1
      [] name \in {"remove_dir_all", "remove_file"} -> 2
      [] name \in {"get", "mkdir", "create"} -> 3
      [] OTHER -> 4

\* The entities of the listing that the statuses of the pass send to apply_sync.
ToFetch(paths) ==
    LET Wanted(e) == paths[e.href] # "Sync"
    IN  SelectSeq(remote, Wanted)

\* C14: step ordering of a pass.  The manifest is loaded first and the listing call
\* comes next, before reconciliation; every deletion comes before the first directory
\* creation or download; apply_sync takes the entities to fetch one by one in listing
\* order; the save comes after the last fetch; and a successful pass has loaded, listed
\* and saved once each and has fetched every entity it had to.
C14_StepOrder ==
    /\ \A i, j \in 1..Len(ops) : i < j => StepOf(ops[i].op) <= StepOf(ops[j].op)
    /\ \A name \in {"load", "list", "save_create", "save_write"} :
          Cardinality(OpsNamed({name})) <= 1
    /\ pc \notin {"idle"} => (ops # <<>> /\ ops[1].op = "load")
    /\ Reconciled => OpsNamed({"list"}) # {}
    /\ pc = "applying" => IsSuffix(to_sycn_files, ToFetch(version_service.version.paths))
    /\ pc \in {"deleting", "applying"} => OpsNamed({"save_create", "save_write"}) = {}
    /\ (pc = "idle" /\ result.status = "ok") =>
        /\ \A name \in {"load", "list", "save_create", "save_write"} :
              Cardinality(OpsNamed({name})) = 1
        /\ ops[Len(ops)].op = "save_write"
        /\ LET fetched == ToFetch(VersionNew(FromEntities(remote), Manifest0).paths)
           IN  \A k \in 1..Len(fetched) :
                 (~Blacklisted(fetched[k].href) /\ fetched[k].href # UrlPath) =>
                     \E i \in FetchOps : ops[i].href = fetched[k].href

\* A successful pass that removed an entry and then fetched a file.
C14_Witness ==
    /\ pc = "idle"
    /\ result.status = "ok"
    /\ RemoveOps # {}
    /\ OpsNamed({"create"}) # {}

\* The calls of save_in_file.
SaveOps == OpsNamed({"save_create", "save_write"})

\* C15: persist exactly once.  A successful pass has written .sync once, as its last
\* call, with the manifest it holds in memory, also when it removed and fetched
\* nothing; up to the save step, and in a pass that ends before it, .sync is not
\* written at all.
C15_PersistOnce ==
    /\ (pc = "idle" /\ result.status = "ok") =>
        /\ Cardinality(OpsNamed({"save_create"})) = 1
        /\ Cardinality(OpsNamed({"save_write"})) = 1
        /\ SaveOps = {Len(ops) - 1, Len(ops)}
        /\ syncFile = JsonSyncFile(local_version)
    /\ pc \in {"listing", "deleting", "applying", "persist"} =>
        (SaveOps = {} /\ syncFile = startSync)
    /\ (pc = "idle" /\ result.status \in {"err", "panic"} /\ result.at # "save") =>
        (SaveOps = {} /\ syncFile = startSync)

\* A first pass over an empty listing: nothing to remove or fetch, and .sync is written.
C15_Witness ==
    /\ pc = "idle"
    /\ result.status = "ok"
    /\ RemoveOps = {}
    /\ FetchOps = {}
    /\ startSync = NoSyncFile
    /\ syncFile = JsonSyncFile(EmptyVersion)

\* C16: manifest load outcomes.  load_from_file gives the empty manifest when .sync
\* does not exist, never lets a pass go on from a .sync that does not parse, and ends
\* every failure of opening, reading or parsing .sync with an error value, never
\* with a panic.
C16_LoadOutcomes ==
    /\ result.at = "init" => result.status = "err"
    /\ (pc = "listing" /\ startSync = NoSyncFile) => local_version = EmptyVersion
    /\ pc \notin {"idle", "write"} => syncFile.kind # "corrupt"

\* The manifest entry the Fetched step is to write for an entity: the output
\* directory joined with the decoded href minus the root prefix, and the entity's
\* timestamp for a file.
EntryFor(e) ==
    LET path == Join(OutDir, Decode(SliceFrom(e.href, Len(UrlPath))).s)
    IN  IF e.kind = "File" THEN LocalFile(path, FALSE, Some(e.last_modified))
        ELSE LocalFile(path, TRUE, None)

\* C17, as claimed: once apply_sync has succeeded, every entity of the to-fetch list
\* that is not blacklisted has its manifest entry.
C17_EveryEntityHasEntry ==
    pc \in {"persist", "write"} =>
        LET got == ToFetch(version_service.version.paths)
        IN  \A k \in 1..Len(got) :
              ~Blacklisted(got[k].href) =>
                  /\ got[k].href \in DOMAIN local_version
                  /\ local_version[got[k].href] = EntryFor(got[k])

\* C17, amended: once apply_sync has succeeded, every href of the to-fetch list that
\* is neither blacklisted nor the listing root has the manifest entry of the last
\* entity listed for it, and the root has the entry it had before, if any; and at
\* every moment an entry that the pass has written names a path that exists, a
\* directory for is_dir and a file otherwise.
C17_FetchedEntries ==
    /\ pc \in {"persist", "write"} =>
        LET got == ToFetch(version_service.version.paths)
        IN  \A k \in 1..Len(got) :
              LET h == got[k].href
              IN  IF h = UrlPath
                  THEN h \in DOMAIN local_version => local_version[h] = Manifest0[h]
                  ELSE (~Blacklisted(h) /\ \A n \in (k + 1)..Len(got) : got[n].href # h) =>
                          (h \in DOMAIN local_version /\ local_version[h] = EntryFor(got[k]))
    /\ pc \in {"applying", "persist", "write"} =>
        \A h \in DOMAIN local_version :
            (h \notin DOMAIN Manifest0 \/ local_version[h] # Manifest0[h]) =>
                LET path == Norm(local_version[h].path)
                IN  /\ path \in DOMAIN fs
                    /\ fs[path] = (IF local_version[h].is_dir THEN "dir" ELSE "file")

\* apply_sync has succeeded over the root, which got no entry, and a stale file,
\* whose entry was replaced.
C17_Witness ==
    /\ pc = "persist"
    /\ \E i \in 1..Len(remote) : remote[i].href = UrlPath
    /\ UrlPath \notin DOMAIN local_version
    /\ \E h \in DOMAIN local_version \cap DOMAIN Manifest0 :
          /\ ~local_version[h].is_dir
          /\ local_version[h] # Manifest0[h]

\* C18: round trip of the manifest.  Every manifest a pass holds is read back from
\* its serialised form with the same keys and the same entry for each key, and after
\* save_in_file .sync holds that manifest and nothing of what it held before.
C18_RoundTrip ==
    /\ FromJson(ToJson(local_version)) = local_version
    /\ (pc = "idle" /\ result.status = "ok") =>
        LET loaded == LoadFromFile(syncFile, "ok")
        IN  /\ loaded.ok
            /\ DOMAIN loaded.files = DOMAIN local_version
            /\ \A h \in DOMAIN local_version : loaded.files[h] = local_version[h]
            /\ {m.href : m \in syncFile.members} = DOMAIN local_version
            /\ Cardinality(syncFile.members) = Cardinality(DOMAIN local_version)

\* A manifest with a directory entry and a file entry was saved over a .sync that held
\* an entry it no longer has.
C18_Witness ==
    /\ pc = "idle"
    /\ result.status = "ok"
    /\ \E h \in DOMAIN local_version : local_version[h].last_modified = None
    /\ \E h \in DOMAIN local_version : local_version[h].last_modified # None
    /\ \E m \in startSync.members : m.href \notin DOMAIN local_version

\* out_dir holds nothing.
EmptyOutDir == syncFile = NoSyncFile /\ fs = (OutDir :> "dir")

\* C19: the clear operation.  Without .sync in out_dir, clear_out_dir returns Ok and
\* changes nothing; with .sync, a clear that returns Ok has removed every entry of
\* out_dir, .sync and the sub-directories with all they hold included; and a clear run
\* after a clear that returned Ok changes nothing.
C19_Clear ==
    /\ [][(pc = "clear_call" /\ syncFile = NoSyncFile) =>
            (result'.status = "ok" /\ fs' = fs /\ syncFile' = syncFile)]_vars
    /\ []((pc = "cleared" /\ result.status = "ok" /\ startSync # NoSyncFile) => EmptyOutDir)
    /\ []((pc = "cleared" /\ result.status = "ok" /\ startSync = NoSyncFile) => ops = <<>>)
    /\ [][prev.status = "ok" => (fs' = fs /\ syncFile' = syncFile)]_vars

\* A clear has removed .sync and two more entries of out_dir, a directory among them.
C19_Witness ==
    /\ pc = "cleared"
    /\ result.status = "ok"
    /\ startSync # NoSyncFile
    /\ EmptyOutDir
    /\ Len(ops) = 3
    /\ OpsNamed({"remove_dir_all"}) # {}

\* C20: disjoint action sets of the reconciler.  In every pass no href is both in
\* what files_to_remove() returns and in what files_to_download() returns, and no
\* entity that entities_to_download() returns has an href of files_to_remove().
C20_DisjointActionSets ==
    Reconciled =>
        LET version == version_service.version
            got == EntitiesToDownload(version_service)
        IN  /\ FilesToRemove(version) \cap FilesToDownload(version) = {}
            /\ \A i \in 1..Len(got) : got[i].href \notin FilesToRemove(version)

\* C21: the deletion step and the manifest.  Every href delete_locals has still to
\* visit is a key of the manifest in memory, so the unwrap of the popped entry never
\* panics; while it runs and once it has returned Ok, every entry whose href is not
\* Local is what the pass loaded, and once it has returned Ok, before the first fetch,
\* the manifest has exactly those entries.
C21_DeletionStep ==
    /\ ~(result.status = "panic" /\ result.at = "delete")
    /\ pc = "deleting" =>
        /\ \A i \in 1..Len(to_detele) : to_detele[i] \in DOMAIN local_version
        /\ \A h \in DOMAIN Manifest0 \ FilesToRemove(version_service.version) :
              h \in DOMAIN local_version /\ local_version[h] = Manifest0[h]
    /\ (DeleteDone /\ to_sycn_files = EntitiesToDownload(version_service)) =>
        /\ DOMAIN local_version = DOMAIN Manifest0 \ FilesToRemove(version_service.version)
        /\ \A h \in DOMAIN local_version : local_version[h] = Manifest0[h]

\* delete_locals has returned Ok after dropping one entry and keeping another.
C21_Witness ==
    /\ pc = "applying"
    /\ to_sycn_files = EntitiesToDownload(version_service)
    /\ FilesToRemove(version_service.version) # {}
    /\ local_version # EmptyVersion
    /\ RemoveOps # {}

\* sync() has returned the error of a delete of delete_locals.
DeleteFailed == pc = "idle" /\ result.status = "err" /\ result.at = "delete"

\* The href whose delete failed, the hrefs whose delete was done before it, and the
\* entries the manifest in memory has lost since it was loaded.
FailedHref == ops[Len(ops)].href
DeletedHrefs == {ops[i].href : i \in RemoveOps \ {Len(ops)}}
LostHrefs == DOMAIN Manifest0 \ DOMAIN local_version

\* C22, as claimed: when a delete of delete_locals fails, the manifest in memory has
\* lost only Local entries visited before the failure, those whose delete was done
\* among them, and still holds the entry whose delete failed.
C22_FailedEntryKept ==
    DeleteFailed =>
        /\ LostHrefs \subseteq DOMAIN Manifest0 \ EntityHrefs(remote)
        /\ DeletedHrefs \subseteq LostHrefs
        /\ FailedHref \in DOMAIN local_version

\* C22, amended: when a delete of delete_locals fails, the manifest in memory has lost
\* only Local entries, those whose delete was done and the one whose delete failed
\* among them, every entry it still has is unchanged, and .sync is what the pass
\* loaded; the pass run after it computes as its remove set the Local hrefs of that
\* persisted manifest.
C22_FailedDeletion ==
    /\ DeleteFailed =>
        /\ LostHrefs \subseteq DOMAIN Manifest0 \ EntityHrefs(remote)
        /\ DeletedHrefs \subseteq LostHrefs
        /\ FailedHref \in LostHrefs
        /\ \A h \in DOMAIN local_version : local_version[h] = Manifest0[h]
        /\ syncFile = startSync
    /\ (prev.status = "err" /\ prev.at = "delete" /\ Reconciled) =>
        FilesToRemove(version_service.version) = DOMAIN Manifest0 \ EntityHrefs(remote)

\* The second delete of delete_locals has failed, after a first one that was done.
C22_Witness ==
    /\ DeleteFailed
    /\ DeletedHrefs # {}
    /\ FailedHref \notin DeletedHrefs

\* C23: reconciliation is total.  Whatever the manifest and the listing, also when an
\* href stored as a directory is listed as a file or an href stored as a file is listed
\* as a directory, VersionService::init returns a status map and no pass ends in a
\* panic of the reconciliation.
C23_ReconciliationTotal ==
    /\ ReconcileRan => ~VersionServiceInit(Manifest0, remote).version.panicked
    /\ ~(result.status = "panic" /\ result.at = "reconcile")

\* C24: convergence of the manifest key set.  After a successful pass that started
\* from a manifest without blacklisted key, the keys of the manifest in .sync are the
\* hrefs of the listing that are neither blacklisted nor the listing root, and every
\* file entry has the timestamp the listing gives for its href.
C24_ManifestConverges ==
    (/\ pc = "idle"
     /\ result.status = "ok"
     /\ \A h \in DOMAIN Manifest0 : ~Blacklisted(h)) =>
        LET persisted == LoadFromFile(syncFile, "ok").files
            listed == FromEntities(remote)
        IN  /\ DOMAIN persisted = {h \in DOMAIN listed : ~Blacklisted(h) /\ h # UrlPath}
            /\ \A h \in DOMAIN persisted :
                  ~persisted[h].is_dir =>
                      persisted[h].last_modified = Some(listed[h].last_modified)

\* C25: manifest and filesystem agree after success.  When every pass so far has
\* succeeded and nothing else has touched the output directory, every entry of the
\* manifest in .sync names a local path that exists: a directory for an is_dir entry,
\* a file for the others.
C25_ManifestMatchesDisk ==
    (pc = "idle" /\ result.status = "ok" /\ all_passes_ok) =>
        LET persisted == LoadFromFile(syncFile, "ok").files
        IN  \A h \in DOMAIN persisted :
                IF persisted[h].is_dir THEN IsDir(fs, persisted[h].path)
                ELSE IsFile(fs, persisted[h].path)

\* The segments of a path between its separators.
RECURSIVE Segments(_)
Segments(p) ==
    IF p = <<>> THEN << <<>> >>
    ELSE LET rest == Segments(Tail(p))
         IN  IF Head(p) = "/" THEN << <<>> >> \o rest
             ELSE << <<Head(p)>> \o Head(rest) >> \o Tail(rest)

\* The segments left once "." and ".." are resolved; a ".." that nothing precedes
\* stays, except at the root of an absolute path.
RECURSIVE ResolveSegments(_, _, _)
ResolveSegments(segs, done, abs) ==
    IF segs = <<>> THEN done
    ELSE LET seg == Head(segs)
         IN  IF seg \in {<<>>, <<".">>} THEN ResolveSegments(Tail(segs), done, abs)
             ELSE IF seg = <<".", ".">>
             THEN IF done # <<>> /\ done[Len(done)] # <<".", ".">>
                  THEN ResolveSegments(Tail(segs), SubSeq(done, 1, Len(done) - 1), abs)
                  ELSE IF abs THEN ResolveSegments(Tail(segs), done, abs)
                  ELSE ResolveSegments(Tail(segs), Append(done, seg), abs)
             ELSE ResolveSegments(Tail(segs), Append(done, seg), abs)

Absolute(p) == p # <<>> /\ p[1] = "/"

Resolved(p) == [abs |-> Absolute(p), segs |-> ResolveSegments(Segments(p), <<>>, Absolute(p))]

\* The path names out_dir or something below it.
InsideOutDir(p) ==
    LET o == Resolved(OutDir)
        r == Resolved(p)
    IN  /\ r.abs = o.abs
        /\ Len(r.segs) >= Len(o.segs)
        /\ SubSeq(r.segs, 1, Len(o.segs)) = o.segs

\* The paths handed to File::create and DirBuilder::create.
PathOps == {i \in DOMAIN ops : ops[i].op \in {"create", "mkdir"}}

\* C26: path translation stays inside the output directory.  For every href of the
\* listing the path handed to the filesystem is out_dir joined with the
\* percent-decoded remainder of the href after the root's path, and it names out_dir
\* or something below it; a remainder that does not decode ends the call in an error.
C26_PathInsideOutDir ==
    LET decoded == Decode(SliceFrom(remote[1].href, Len(UrlPath)))
    IN  /\ \A i \in PathOps :
              /\ decoded.ok
              /\ ops[i].arg = Join(OutDir, decoded.s)
              /\ InsideOutDir(ops[i].arg)
        /\ (pc = "path_done" /\ ~decoded.ok /\ remote[1].href # UrlPath) =>
              (result.status = "err" /\ result.kind = "decode")

\* The translation without the containment: the path is the join and a failed
\* decoding is an error.
PathIsJoin ==
    LET decoded == Decode(SliceFrom(remote[1].href, Len(UrlPath)))
    IN  /\ \A i \in PathOps : decoded.ok /\ ops[i].arg = Join(OutDir, decoded.s)
        /\ (pc = "path_done" /\ ~decoded.ok /\ remote[1].href # UrlPath) =>
              (result.status = "err" /\ result.kind = "decode")

====
